---- MODULE Spec2Model ----
(***************************************************************************)
(* Model of scripts/search_logger.py: the search-logger proxy.  A request  *)
(* task runs one route handler.  POST /log-search stores a SearchEvent;    *)
(* POST /v1/chat/completions extracts an event from the payload, stores    *)
(* it, and forwards the payload to the upstream in buffered or streaming   *)
(* mode.  The two MongoDB collections (users, searches) are shared by all  *)
(* request tasks.                                                          *)
(***************************************************************************)
EXTENDS Integers, Sequences, FiniteSets, TLC

VARIABLES users, searches, clock, pc, rq, st, fw, resp

vars == <<users, searches, clock, pc, rq, st, fw, resp>>

(* ------------------------------ bounds --------------------------------- *)

\* concurrent POST /log-search requests of SpecStore
NReq == 2
\* chunks of an upstream body
MaxChunks == 2

Reqs == 1..NReq

\* the request task of Spec
OneReq == {1}

(* ------------------------------ values --------------------------------- *)

\* Python None / an absent document field, and a present string (a sequence
\* of characters).
None == [has |-> FALSE]

Some(s) == [has |-> TRUE, s |-> s]

\* Python truthiness of an Optional[str]: None and "" are falsy.
Truthy(o) == o.has /\ o.s # <<>>

\* event.timestamp is None
NoTimestamp == 0 - 1

RECURSIVE LStrip(_)
LStrip(s) == IF s # <<>> /\ Head(s) = " " THEN LStrip(Tail(s)) ELSE s

RECURSIVE RStrip(_)
RStrip(s) ==
    IF s # <<>> /\ s[Len(s)] = " " THEN RStrip(SubSeq(s, 1, Len(s) - 1)) ELSE s

\* str.strip()
Strip(s) == LStrip(RStrip(s))

UpperLetters ==
    <<"A", "B", "C", "D", "E", "F", "G", "H", "I", "J", "K", "L", "M",
      "N", "O", "P", "Q", "R", "S", "T", "U", "V", "W", "X", "Y", "Z">>

LowerLetters ==
    <<"a", "b", "c", "d", "e", "f", "g", "h", "i", "j", "k", "l", "m",
      "n", "o", "p", "q", "r", "s", "t", "u", "v", "w", "x", "y", "z">>

LowerChar(c) ==
    IF \E i \in 1..Len(UpperLetters) : UpperLetters[i] = c
    THEN LowerLetters[CHOOSE i \in 1..Len(UpperLetters) : UpperLetters[i] = c]
    ELSE c

\* str.lower()
Lower(s) == [i \in 1..Len(s) |-> LowerChar(s[i])]

\* event.email.strip().lower()
NormalizeEmail(s) == Lower(Strip(s))

\* the status code of HTTPException(status_code=500, ...)
StoreErrorStatus == 500

(* --------------------------- store_search_event ------------------------ *)

\* _normalize_timestamp: event.timestamp or datetime.now(timezone.utc)
NormalizeTimestamp(event, now) ==
    IF event.timestamp # NoTimestamp THEN event.timestamp ELSE now

\* UserFilter looking the email up as it was sent, not normalized
UserFilterRaw(event) ==
    IF Truthy(event.email)
    THEN [field |-> "email", value |-> event.email.s]
    ELSE IF Truthy(event.user_id)
         THEN [field |-> "external_user_id", value |-> event.user_id.s]
         ELSE [field |-> "none"]

\* UserFilter preferring the user_id to the email
UserFilterUserIdFirst(event) ==
    IF Truthy(event.user_id)
    THEN [field |-> "external_user_id", value |-> event.user_id.s]
    ELSE IF Truthy(event.email)
         THEN [field |-> "email", value |-> NormalizeEmail(event.email.s)]
         ELSE [field |-> "none"]

\* user_filter: the email (normalized) if the event has one, else the
\* user_id if it has one, else empty.
UserFilter(event) ==
    IF Truthy(event.email)
    THEN [field |-> "email", value |-> NormalizeEmail(event.email.s)]
    ELSE IF Truthy(event.user_id)
         THEN [field |-> "external_user_id", value |-> event.user_id.s]
         ELSE [field |-> "none"]

\* the documents of the users collection the filter matches
Matches(filter) ==
    { i \in 1..Len(users) :
        IF filter.field = "email"
        THEN users[i].email = Some(filter.value)
        ELSE users[i].external_user_id = Some(filter.value) }

\* ApplySet writing name, email and external_user_id whether or not the
\* event has them
ApplySetAll(doc, event, ts) ==
    [doc EXCEPT
       !.updated_at = ts,
       !.name = event.name,
       !.email = IF Truthy(event.email)
                 THEN Some(NormalizeEmail(event.email.s)) ELSE event.email,
       !.external_user_id = event.user_id]

\* $set of update_doc applied to a document
ApplySet(doc, event, ts) ==
    [doc EXCEPT
       !.updated_at = ts,
       !.name = IF Truthy(event.name) THEN event.name ELSE @,
       !.email = IF Truthy(event.email)
                 THEN Some(NormalizeEmail(event.email.s)) ELSE @,
       !.external_user_id = IF Truthy(event.user_id) THEN event.user_id ELSE @]

\* the document an upsert inserts: the filter's equality field, then
\* $setOnInsert and $set
UpsertInsertDoc(filter, event, ts) ==
    ApplySet([email |-> IF filter.field = "email"
                        THEN Some(filter.value) ELSE None,
              external_user_id |-> IF filter.field = "external_user_id"
                                   THEN Some(filter.value) ELSE None,
              name |-> None,
              created_at |-> ts,
              updated_at |-> ts],
             event, ts)

Anonymous == <<"A", "n", "o", "n", "y", "m", "o", "u", "s">>

\* the document of the no-filter branch
AnonymousDoc(event, ts) ==
    [email |-> None,
     external_user_id |-> None,
     name |-> IF Truthy(event.name) THEN event.name ELSE Some(Anonymous),
     created_at |-> ts,
     updated_at |-> ts]

\* SearchEvent.metadata left out of the body: event.metadata or {}
NoMetadata == [model |-> None]

\* SearchDoc without the id of the identity
SearchDocNoUser(uid, event, ts) ==
    [user_id |-> 0, query |-> event.query, metadata |-> event.metadata,
     created_at |-> ts]

\* search_doc
SearchDoc(uid, event, ts) ==
    [user_id |-> uid, query |-> event.query, metadata |-> event.metadata,
     created_at |-> ts]

StLocals == [ts |-> NoTimestamp, uid |-> 0, sid |-> 0, out |-> "none"]

\* event_ts = _normalize_timestamp(event); every reading of datetime.now()
\* is later than the one before
StoreTimestamp(r) ==
    /\ pc[r] = "st_ts"
    /\ st' = [st EXCEPT ![r].ts = NormalizeTimestamp(rq[r].event, clock)]
    /\ clock' = IF rq[r].event.timestamp = NoTimestamp THEN clock + 1 ELSE clock
    /\ pc' = [pc EXCEPT ![r] = "st_user"]
    /\ UNCHANGED <<users, searches, rq, fw, resp>>

\* StoreUpsert as a plain insert_one of the document
StoreUpsertInsertOnly(r) ==
    /\ pc[r] = "st_user"
    /\ UserFilter(rq[r].event).field # "none"
    /\ users' = Append(users, UpsertInsertDoc(UserFilter(rq[r].event),
                                              rq[r].event, st[r].ts))
    /\ st' = [st EXCEPT ![r].uid = Len(users) + 1]
    /\ pc' = [pc EXCEPT ![r] = "st_search"]
    /\ UNCHANGED <<searches, clock, rq, fw, resp>>

\* users.find_one_and_update(filter, update, upsert=True,
\* return_document=AFTER): one operation of the store, taken as atomic (the
\* find and the update or insert are one step)
StoreUpsert(r) ==
    LET event == rq[r].event
        filter == UserFilter(event)
    IN /\ pc[r] = "st_user"
       /\ filter.field # "none"
       /\ IF Matches(filter) # {}
          THEN \E i \in Matches(filter) :
                 /\ users' = [users EXCEPT ![i] = ApplySet(@, event, st[r].ts)]
                 /\ st' = [st EXCEPT ![r].uid = i]
          ELSE /\ users' = Append(users, UpsertInsertDoc(filter, event, st[r].ts))
               /\ st' = [st EXCEPT ![r].uid = Len(users) + 1]
       /\ pc' = [pc EXCEPT ![r] = "st_search"]
       /\ UNCHANGED <<searches, clock, rq, fw, resp>>

\* StoreInsertAnonymous reusing an identity of the same name
StoreInsertAnonymousMerged(r) ==
    LET doc == AnonymousDoc(rq[r].event, st[r].ts)
        same == { i \in 1..Len(users) :
                    users[i].name = doc.name /\ ~users[i].email.has
                    /\ ~users[i].external_user_id.has }
    IN /\ pc[r] = "st_user"
       /\ UserFilter(rq[r].event).field = "none"
       /\ IF same # {}
          THEN \E i \in same :
                 /\ users' = [users EXCEPT ![i].updated_at = st[r].ts]
                 /\ st' = [st EXCEPT ![r].uid = i]
          ELSE /\ users' = Append(users, doc)
               /\ st' = [st EXCEPT ![r].uid = Len(users) + 1]
       /\ pc' = [pc EXCEPT ![r] = "st_search"]
       /\ UNCHANGED <<searches, clock, rq, fw, resp>>

\* users.insert_one(user_doc) of the no-filter branch
StoreInsertAnonymous(r) ==
    /\ pc[r] = "st_user"
    /\ UserFilter(rq[r].event).field = "none"
    /\ users' = Append(users, AnonymousDoc(rq[r].event, st[r].ts))
    /\ st' = [st EXCEPT ![r].uid = Len(users) + 1]
    /\ pc' = [pc EXCEPT ![r] = "st_search"]
    /\ UNCHANGED <<searches, clock, rq, fw, resp>>

\* StoreInsertSearch replacing the identity's earlier record, if it has one
StoreInsertSearchReplace(r) ==
    LET doc == SearchDoc(st[r].uid, rq[r].event, st[r].ts)
        old == { i \in 1..Len(searches) : searches[i].user_id = st[r].uid }
    IN /\ pc[r] = "st_search"
       /\ IF old # {}
          THEN \E i \in old :
                 /\ searches' = [searches EXCEPT ![i] = doc]
                 /\ st' = [st EXCEPT ![r].sid = i, ![r].out = "ok"]
          ELSE /\ searches' = Append(searches, doc)
               /\ st' = [st EXCEPT ![r].sid = Len(searches) + 1, ![r].out = "ok"]
       /\ pc' = [pc EXCEPT ![r] = "st_ret"]
       /\ UNCHANGED <<users, clock, rq, fw, resp>>

\* searches.insert_one(search_doc); return {"ok": True, ...}
StoreInsertSearch(r) ==
    /\ pc[r] = "st_search"
    /\ searches' = Append(searches, SearchDoc(st[r].uid, rq[r].event, st[r].ts))
    /\ st' = [st EXCEPT ![r].sid = Len(searches) + 1, ![r].out = "ok"]
    /\ pc' = [pc EXCEPT ![r] = "st_ret"]
    /\ UNCHANGED <<users, clock, rq, fw, resp>>

\* StoreFail of an insert_one that wrote the record before it raised
StoreFailAfterInsert(r) ==
    /\ pc[r] \in {"st_user", "st_search"}
    /\ \E kind \in {"http500", "exc"} : st' = [st EXCEPT ![r].out = kind]
    /\ searches' = IF pc[r] = "st_search"
                   THEN Append(searches, SearchDoc(st[r].uid, rq[r].event, st[r].ts))
                   ELSE searches
    /\ pc' = [pc EXCEPT ![r] = "st_ret"]
    /\ UNCHANGED <<users, clock, rq, fw, resp>>

\* a store call raises: a PyMongoError is caught and re-raised as
\* HTTPException(500) ("http500"); any other exception (a BSON encoding
\* error of the document) leaves store_search_event as it is ("exc")
StoreFail(r) ==
    /\ pc[r] \in {"st_user", "st_search"}
    /\ \E kind \in {"http500", "exc"} : st' = [st EXCEPT ![r].out = kind]
    /\ pc' = [pc EXCEPT ![r] = "st_ret"]
    /\ UNCHANGED <<users, searches, clock, rq, fw, resp>>

(* ------------------------------ requests ------------------------------- *)

Email1 == <<"A">>
Email2 == <<" ", "a">>
Email3 == <<"b">>
UserId1 == <<"u">>
Name1 == <<"n">>
Query1 == <<"q">>

Event(user_id, email, name, timestamp) ==
    [user_id |-> user_id, email |-> email, name |-> name, query |-> Query1,
     metadata |-> NoMetadata, timestamp |-> timestamp]

\* SearchEvent bodies of POST /log-search: email only; the same email in
\* another spelling, with a user id and a name; user id only; nothing (with
\* and without a name, with a client timestamp); another email; empty strings
LogEvents ==
    {Event(None, Some(Email1), None, NoTimestamp),
     Event(Some(UserId1), Some(Email2), Some(Name1), NoTimestamp),
     Event(Some(UserId1), None, None, NoTimestamp),
     Event(None, None, None, NoTimestamp),
     Event(None, None, Some(Name1), 0),
     Event(None, Some(Email3), None, 0),
     Event(Some(<<>>), Some(<<>>), Some(<<>>), NoTimestamp)}

NoRequest == [route |-> "none"]

\* sent: the requests issued to the upstream
FwLocals ==
    [mode |-> "none", conn |-> "none", status |-> 0, n |-> 0, buffered |-> 0,
     eof |-> FALSE, end |-> "none", sent |-> <<>>]

NoResponse == [status |-> 0, cause |-> "none", body |-> <<>>]

\* requests are numbered in their order of arrival
Arrives(r) == pc[r] = "idle" /\ (IF r = 1 THEN TRUE ELSE pc[r - 1] # "idle")

\* POST /log-search: log_search(event) calls store_search_event(event)
ReceiveLogSearch(r) ==
    /\ Arrives(r)
    /\ \E event \in LogEvents : rq' = [rq EXCEPT ![r] = [route |-> "log", event |-> event]]
    /\ pc' = [pc EXCEPT ![r] = "st_ts"]
    /\ UNCHANGED <<users, searches, clock, st, fw, resp>>

\* LogSearchRespond answering ok whatever the store did
LogSearchRespondAlwaysOk(r) ==
    /\ pc[r] = "st_ret"
    /\ rq[r].route = "log"
    /\ resp' = [resp EXCEPT ![r] =
                  [status |-> 200, cause |-> "ok", body |-> <<>>,
                   search_id |-> st[r].sid, user_id |-> st[r].uid]]
    /\ pc' = [pc EXCEPT ![r] = "done"]
    /\ UNCHANGED <<users, searches, clock, rq, st, fw>>

\* log_search returns the store result; an HTTPException(500) or any other
\* exception of the store answers 500
LogSearchRespond(r) ==
    /\ pc[r] = "st_ret"
    /\ rq[r].route = "log"
    /\ resp' = [resp EXCEPT ![r] =
                  IF st[r].out = "ok"
                  THEN [status |-> 200, cause |-> "ok", body |-> <<>>,
                        search_id |-> st[r].sid, user_id |-> st[r].uid]
                  ELSE [status |-> StoreErrorStatus, cause |-> "store",
                        body |-> <<>>]]
    /\ pc' = [pc EXCEPT ![r] = "done"]
    /\ UNCHANGED <<users, searches, clock, rq, st, fw>>

(* ---------------------------- Event Extractor -------------------------- *)

RECURSIVE JoinBits(_)
\* " ".join(bits)
JoinBits(bits) ==
    IF bits = <<>> THEN <<>>
    ELSE IF Len(bits) = 1 THEN bits[1]
    ELSE bits[1] \o <<" ">> \o JoinBits(Tail(bits))

RECURSIVE TextBits(_)
\* text_bits: str(item["text"]) of every dict item that has a "text" key
TextBits(items) ==
    IF items = <<>> THEN <<>>
    ELSE (IF Head(items).t = "dict" /\ Head(items).text.has
          THEN <<Head(items).text.s>> ELSE <<>>) \o TextBits(Tail(items))

RECURSIVE StripNonEmpty(_)
\* bit.strip() for bit in text_bits if bit
StripNonEmpty(bits) ==
    IF bits = <<>> THEN <<>>
    ELSE (IF Head(bits) # <<>> THEN <<Strip(Head(bits))>> ELSE <<>>)
         \o StripNonEmpty(Tail(bits))

\* _extract_user_text(content)
ExtractUserText(content) ==
    IF content.t = "str" THEN Some(content.s)
    ELSE IF content.t = "list"
         THEN Some(JoinBits(StripNonEmpty(TextBits(content.v))))
         ELSE None

\* IsUserMessage without the comparison of the role
IsUserMessageAnyRole(m) == m.t = "dict"

\* isinstance(message, dict) and message.get("role") == "user"
IsUserMessage(m) == m.t = "dict" /\ m.role = Some(<<"u", "s", "e", "r">>)

\* for message in reversed(list(messages)): the last message of role "user"
LastUserIndex(messages) ==
    IF \E i \in 1..Len(messages) : IsUserMessage(messages[i])
    THEN CHOOSE i \in 1..Len(messages) :
           /\ IsUserMessage(messages[i])
           /\ \A j \in (i + 1)..Len(messages) : ~IsUserMessage(messages[j])
    ELSE 0

NoEvent == [query |-> <<>>]

\* the exception the construction of an event ends with, in place of a result
Raised(exc) == [query |-> <<>>, raised |-> exc]

IsRaised(event) == "raised" \in DOMAIN event

\* a JSON value that is neither a string nor null and is truthy (a non-empty
\* object), where the payload is expected to hold a string
NonString == [has |-> TRUE, s |-> <<"{", "}">>, str |-> FALSE]

\* pydantic's validation of an Optional[str] field of SearchEvent
ValidOptionalStr(o) == "str" \notin DOMAIN o

\* payload.get("messages") or []; a value that is not a list holds no dict
\* entry (not Iterable, or iterated to characters or keys)
MessagesOf(payload) == IF payload.messages.t = "list" THEN payload.messages.v ELSE <<>>

\* request_metadata.get(key): the metadata field if it is a dict, else {}
MetadataGet(payload, key) ==
    IF payload.metadata.t = "dict" THEN payload.metadata.v[key] ELSE None

\* a or b on Optional[str]
OrElse(a, b) == IF Truthy(a) THEN a ELSE b

\* _build_event_from_payload(payload): NoEvent stands for None.
\* payload.get of a payload that is no object raises AttributeError, and
\* SearchEvent(...) of a user_id, email or name that is no string raises
\* pydantic's ValidationError.
BuildEventFromPayload(payload) ==
    IF payload.t # "dict" THEN Raised("AttributeError")
    ELSE
    LET messages == MessagesOf(payload)
        k == LastUserIndex(messages)
        content == IF k = 0 THEN None ELSE ExtractUserText(messages[k].content)
        user_id == OrElse(payload.user, MetadataGet(payload, "user_id"))
        email == MetadataGet(payload, "email")
        name == MetadataGet(payload, "name")
    IN IF k = 0 \/ ~Truthy(content) THEN NoEvent
       ELSE IF ~(ValidOptionalStr(user_id) /\ ValidOptionalStr(email)
                 /\ ValidOptionalStr(name))
       THEN Raised("ValidationError")
       ELSE [user_id |-> user_id,
             email |-> email,
             name |-> name,
             query |-> content.s,
             metadata |-> [model |-> payload.model,
                           messages_count |-> Len(messages),
                           stream |-> payload.stream,
                           conversation_id |-> OrElse(payload.conversation_id,
                                                      MetadataGet(payload, "conversation_id")),
                           request_metadata |->
                               IF /\ payload.metadata.t = "dict"
                                  /\ \E key \in DOMAIN payload.metadata.v :
                                        payload.metadata.v[key].has
                               THEN payload.metadata ELSE [t |-> "absent"]],
             timestamp |-> NoTimestamp]

(* ------------------------- /v1/chat/completions ------------------------ *)

UserRole == Some(<<"u", "s", "e", "r">>)
AssistantRole == Some(<<"a", "s", "s", "i", "s", "t", "a", "n", "t">>)

Message(role, content) == [t |-> "dict", role |-> role, content |-> content]

StrContent(s) == [t |-> "str", s |-> s]

NoMetadataField == [t |-> "absent"]

MetadataField(email, name) ==
    [t |-> "dict",
     v |-> [email |-> email, name |-> name, user_id |-> None,
            conversation_id |-> None]]

Payload(messages, user, metadata, stream) ==
    [t |-> "dict", messages |-> [t |-> "list", v |-> messages], user |-> user,
     metadata |-> metadata, stream |-> stream, model |-> Some(<<"g">>),
     conversation_id |-> None]

\* chat-completions bodies: a user question; a streamed one whose last user
\* message is multi-part and that names the user by email; a streamed one of
\* an unidentified user; no user message; a body that is no JSON object
ChatPayloads ==
    {Payload(<<Message(UserRole, StrContent(Query1))>>, Some(UserId1),
             NoMetadataField, FALSE),
     Payload(<<Message(UserRole, StrContent(<<"x">>)),
               Message(AssistantRole, StrContent(<<"y">>)),
               Message(UserRole,
                       [t |-> "list",
                        v |-> <<[t |-> "dict", text |-> Some(<<" ", "q">>)],
                                [t |-> "dict", text |-> None],
                                [t |-> "dict", text |-> Some(<<"r", " ">>)]>>])>>,
             None, MetadataField(Some(Email1), Some(Name1)), TRUE),
     Payload(<<Message(UserRole, StrContent(Query1))>>, None,
             MetadataField(None, Some(Name1)), TRUE),
     Payload(<<Message(AssistantRole, StrContent(Query1))>>, None,
             NoMetadataField, FALSE),
     [t |-> "list"]}

\* payload = await request.json()
ReceiveChat(r) ==
    /\ Arrives(r)
    /\ \E payload \in ChatPayloads, accept \in BOOLEAN :
         rq' = [rq EXCEPT ![r] = [route |-> "chat", parsed |-> TRUE,
                                  payload |-> payload,
                                  accept_event_stream |-> accept,
                                  event |-> NoEvent]]
    /\ pc' = [pc EXCEPT ![r] = "chat"]
    /\ UNCHANGED <<users, searches, clock, st, fw, resp>>

\* ChatExtract going on to the forward without storing the event
ChatExtractNoCapture(r) ==
    LET event == BuildEventFromPayload(rq[r].payload)
    IN /\ pc[r] = "chat"
       /\ rq' = [rq EXCEPT ![r].event = event]
       /\ IF IsRaised(event)
          THEN /\ resp' = [resp EXCEPT ![r] =
                             [status |-> 500, cause |-> "unhandled", body |-> <<>>]]
               /\ pc' = [pc EXCEPT ![r] = "done"]
          ELSE /\ pc' = [pc EXCEPT ![r] = "fwd"]
               /\ UNCHANGED resp
       /\ UNCHANGED <<users, searches, clock, st, fw>>

\* event = _build_event_from_payload(payload); if event:
\* store_search_event(event) is called, and returns, before the forward.
\* An exception of _build_event_from_payload is not caught: the framework
\* answers 500.
ChatExtract(r) ==
    LET event == BuildEventFromPayload(rq[r].payload)
    IN /\ pc[r] = "chat"
       /\ rq' = [rq EXCEPT ![r].event = event]
       /\ IF IsRaised(event)
          THEN /\ resp' = [resp EXCEPT ![r] =
                             [status |-> 500, cause |-> "unhandled", body |-> <<>>]]
               /\ pc' = [pc EXCEPT ![r] = "done"]
          ELSE /\ pc' = [pc EXCEPT ![r] = IF event # NoEvent THEN "st_ts" ELSE "fwd"]
               /\ UNCHANGED resp
       /\ UNCHANGED <<users, searches, clock, st, fw>>

\* except HTTPException: raise  (the client is answered 500);
\* except Exception: logged, and the forward follows
ChatStoreReturn(r) ==
    /\ pc[r] = "st_ret"
    /\ rq[r].route = "chat"
    /\ IF st[r].out = "http500"
       THEN /\ resp' = [resp EXCEPT ![r] =
                          [status |-> StoreErrorStatus, cause |-> "store", body |-> <<>>]]
            /\ pc' = [pc EXCEPT ![r] = "done"]
       ELSE /\ pc' = [pc EXCEPT ![r] = "fwd"]
            /\ UNCHANGED resp
    /\ UNCHANGED <<users, searches, clock, rq, st, fw>>

\* payload = await request.json() of a body that is not JSON: the
\* JSONDecodeError is not caught, and the framework answers 500
ReceiveChatUnparseable(r) ==
    /\ Arrives(r)
    /\ rq' = [rq EXCEPT ![r] = [route |-> "chat", parsed |-> FALSE]]
    /\ resp' = [resp EXCEPT ![r] =
                  [status |-> 500, cause |-> "unhandled", body |-> <<>>]]
    /\ pc' = [pc EXCEPT ![r] = "done"]
    /\ UNCHANGED <<users, searches, clock, st, fw>>

(* ------------------------------- /health ------------------------------- *)

\* GET /health: {"status": "ok"}
Health(r) ==
    /\ Arrives(r)
    /\ rq' = [rq EXCEPT ![r] = [route |-> "health"]]
    /\ resp' = [resp EXCEPT ![r] = [status |-> 200, cause |-> "ok", body |-> <<>>]]
    /\ pc' = [pc EXCEPT ![r] = "done"]
    /\ UNCHANGED <<users, searches, clock, st, fw>>

(* ----------------------------- _forward_json --------------------------- *)

\* the status of upstream_unavailable's JSONResponse
BadGateway == 502

UpstreamStatuses == {200, 500}

\* chunks 1..n of an upstream body
Chunks(n) == [i \in 1..n |-> i]

\* stream = bool(payload.get("stream")) or the Accept header starts with
\* text/event-stream
IsStream(req) == req.payload.stream \/ req.accept_event_stream

\* UpstreamUnavailable without the exception handler: the framework answers
\* the unhandled exception with 500
UpstreamUnavailableUnhandled(r) ==
    /\ resp' = [resp EXCEPT ![r] =
                  [status |-> 500, cause |-> "unhandled", body |-> <<>>]]
    /\ pc' = [pc EXCEPT ![r] = "done"]

\* httpx.RequestError raised by the upstream call (connection refused, DNS
\* failure, connect timeout): the exception handler upstream_unavailable
\* answers 502 with its fixed detail
UpstreamUnavailable(r) ==
    /\ resp' = [resp EXCEPT ![r] =
                  [status |-> BadGateway, cause |-> "upstream", body |-> <<>>]]
    /\ pc' = [pc EXCEPT ![r] = "done"]

\* the request _forward_json issues: POST of the payload as JSON
JsonRequest(req) == [method |-> "POST", json |-> req.payload]

\* upstream = await client.post(...); return Response(content, status_code)
ForwardBuffered(r) ==
    /\ pc[r] = "fwd"
    /\ ~IsStream(rq[r])
    /\ \/ /\ UpstreamUnavailable(r)
          /\ fw' = [fw EXCEPT ![r].mode = "buffered", ![r].end = "unavailable",
                              ![r].sent = Append(@, JsonRequest(rq[r]))]
       \/ \E status \in UpstreamStatuses, n \in 0..MaxChunks :
            /\ resp' = [resp EXCEPT ![r] =
                          [status |-> status, cause |-> "relay", body |-> Chunks(n)]]
            /\ fw' = [fw EXCEPT ![r].mode = "buffered", ![r].status = status,
                                ![r].n = n,
                                ![r].sent = Append(@, JsonRequest(rq[r]))]
            /\ pc' = [pc EXCEPT ![r] = "done"]
    /\ UNCHANGED <<users, searches, clock, rq, st>>

\* upstream = await client.send(request_obj, stream=True): the response
\* headers have been read, and with them the first `buffered` of the n chunks
\* the upstream emits (eof: with the end of the body)
StreamSend(r) ==
    /\ pc[r] = "fwd"
    /\ IsStream(rq[r])
    /\ \/ /\ UpstreamUnavailable(r)
          /\ fw' = [fw EXCEPT ![r].mode = "stream", ![r].end = "unavailable",
                              ![r].sent = Append(@, JsonRequest(rq[r]))]
       \/ \E status \in UpstreamStatuses, n \in 0..MaxChunks, k \in 0..MaxChunks,
             eof \in BOOLEAN :
            /\ k <= n
            /\ eof => k = n
            /\ fw' = [fw EXCEPT ![r] =
                        [mode |-> "stream", conn |-> "open", status |-> status,
                         n |-> n, buffered |-> k, eof |-> eof, end |-> "none",
                         sent |-> Append(fw[r].sent, JsonRequest(rq[r]))]]
            /\ pc' = [pc EXCEPT ![r] = "fwd_exit"]
            /\ UNCHANGED resp
    /\ UNCHANGED <<users, searches, clock, rq, st>>

(* ------------------------ /v1/{full_path:path} ------------------------- *)

Methods == {"GET", "POST", "DELETE"}

\* request.query_params: none, or a=1
QueryParams == {<<>>, <<"a", "=", "1">>}

\* proxy_openai: body = await request.body(), whatever the method
ReceiveGeneric(r) ==
    /\ Arrives(r)
    /\ \E method \in Methods, params \in QueryParams, n \in 0..1,
          accept \in BOOLEAN :
         rq' = [rq EXCEPT ![r] = [route |-> "generic", method |-> method,
                                  params |-> params,
                                  body |-> Chunks(n),
                                  accept_event_stream |-> accept]]
    /\ pc' = [pc EXCEPT ![r] = "raw"]
    /\ UNCHANGED <<users, searches, clock, st, fw, resp>>

\* RawRequest issuing every request as a GET without a body
RawRequestAsGet(req) == [method |-> "GET", params |-> req.params, body |-> <<>>]

\* client.request(method, path, headers=headers, content=body, params=params)
RawRequest(req) == [method |-> req.method, params |-> req.params, body |-> req.body]

\* _forward_raw: upstream = await client.request(method, path, ...);
\* return Response(content=upstream.content, status_code=...)
ForwardRaw(r) ==
    /\ pc[r] = "raw"
    /\ \/ /\ UpstreamUnavailable(r)
          /\ fw' = [fw EXCEPT ![r].mode = "buffered", ![r].end = "unavailable",
                              ![r].sent = Append(@, RawRequest(rq[r]))]
       \/ \E status \in UpstreamStatuses, n \in 0..MaxChunks :
            /\ resp' = [resp EXCEPT ![r] =
                          [status |-> status, cause |-> "relay", body |-> Chunks(n)]]
            /\ fw' = [fw EXCEPT ![r].mode = "buffered", ![r].status = status,
                                ![r].n = n,
                                ![r].sent = Append(@, RawRequest(rq[r]))]
            /\ pc' = [pc EXCEPT ![r] = "done"]
    /\ UNCHANGED <<users, searches, clock, rq, st>>

(* --------------------------- a silent upstream ------------------------- *)

\* _timeout(): httpx.Timeout(60, connect=60, read=None): the connect, write
\* and pool waits are bounded, the wait for bytes of the response is not.
\* The upstream accepts the connection and the request and then sends
\* nothing: the await of client.post, client.send or client.request never
\* returns and never raises.
UpstreamSilent(r) ==
    /\ pc[r] \in {"fwd", "raw"}
    /\ fw' = [fw EXCEPT
                ![r].mode = IF pc[r] = "raw" THEN "buffered"
                            ELSE IF IsStream(rq[r]) THEN "stream" ELSE "buffered",
                ![r].conn = "open",
                ![r].end = "silent",
                ![r].sent = Append(@, IF pc[r] = "raw" THEN RawRequest(rq[r])
                                      ELSE JsonRequest(rq[r]))]
    /\ pc' = [pc EXCEPT ![r] = "silent"]
    /\ UNCHANGED <<users, searches, clock, rq, st, resp>>

(* ----------------------- the streamed response ------------------------- *)

\* ClientExit leaving the upstream connection open
ClientExitLeavesOpen(r) ==
    /\ pc[r] = "fwd_exit"
    /\ pc' = [pc EXCEPT ![r] = "resp_start"]
    /\ UNCHANGED <<users, searches, clock, rq, st, fw, resp>>

\* return StreamingResponse(iterator(), ...) from inside
\* `async with httpx.AsyncClient(...) as client`: leaving the block closes the
\* client and its connections before the response body is iterated
ClientExit(r) ==
    /\ pc[r] = "fwd_exit"
    /\ fw' = [fw EXCEPT ![r].conn = "closed"]
    /\ pc' = [pc EXCEPT ![r] = "resp_start"]
    /\ UNCHANGED <<users, searches, clock, rq, st, resp>>

\* the framework sends the status line and headers of the StreamingResponse
\* and starts iterator()
StreamStart(r) ==
    /\ pc[r] = "resp_start"
    /\ resp' = [resp EXCEPT ![r] =
                  [status |-> fw[r].status, cause |-> "relay", body |-> <<>>]]
    /\ pc' = [pc EXCEPT ![r] = "iter"]
    /\ UNCHANGED <<users, searches, clock, rq, st, fw>>

\* async for chunk in upstream.aiter_raw(): yield chunk
\* A buffered chunk is yielded; past the buffer the body is read from the
\* connection, which raises httpx.ReadError once the connection is closed.
IterNext(r) ==
    LET sent == Len(resp[r].body)
    IN /\ pc[r] = "iter"
       /\ IF sent < fw[r].buffered
          THEN /\ resp' = [resp EXCEPT ![r].body = Append(@, sent + 1)]
               /\ UNCHANGED <<fw, pc>>
          ELSE IF fw[r].eof
          THEN /\ fw' = [fw EXCEPT ![r].end = "complete"]
               /\ pc' = [pc EXCEPT ![r] = "iter_finally"]
               /\ UNCHANGED resp
          ELSE IF fw[r].conn = "open"
          THEN /\ fw' = [fw EXCEPT ![r].buffered = IF @ < fw[r].n THEN @ + 1 ELSE @,
                                   ![r].eof = (fw[r].buffered = fw[r].n)]
               /\ UNCHANGED <<resp, pc>>
          ELSE /\ fw' = [fw EXCEPT ![r].end = "error"]
               /\ pc' = [pc EXCEPT ![r] = "iter_finally"]
               /\ UNCHANGED resp
       /\ UNCHANGED <<users, searches, clock, rq, st>>

\* the client goes away: before iterator() was started the response task
\* ends without running it; afterwards the generator is closed at its yield
\* and runs its finally block
ClientDisconnect(r) ==
    /\ pc[r] \in {"resp_start", "iter"}
    /\ fw' = [fw EXCEPT ![r].end = "disconnect"]
    /\ pc' = [pc EXCEPT ![r] = IF pc[r] = "iter" THEN "iter_finally" ELSE "done"]
    /\ UNCHANGED <<users, searches, clock, rq, st, resp>>

\* IterFinally answering a failed read of the started stream with 502
IterFinallyAnswers502(r) ==
    /\ pc[r] = "iter_finally"
    /\ fw' = [fw EXCEPT ![r].conn = "closed"]
    /\ resp' = [resp EXCEPT ![r] =
                  IF fw[r].end = "error"
                  THEN [status |-> BadGateway, cause |-> "upstream", body |-> <<>>]
                  ELSE @]
    /\ pc' = [pc EXCEPT ![r] = "done"]
    /\ UNCHANGED <<users, searches, clock, rq, st>>

\* finally: await upstream.aclose()
IterFinally(r) ==
    /\ pc[r] = "iter_finally"
    /\ fw' = [fw EXCEPT ![r].conn = "closed"]
    /\ pc' = [pc EXCEPT ![r] = "done"]
    /\ UNCHANGED <<users, searches, clock, rq, st, resp>>

(* --------------------------- header sanitizer -------------------------- *)

\* the set hop_by_hop of _filter_headers
HopByHop ==
    {<<"c", "o", "n", "n", "e", "c", "t", "i", "o", "n">>,
     <<"k", "e", "e", "p", "-", "a", "l", "i", "v", "e">>,
     <<"p", "r", "o", "x", "y", "-", "a", "u", "t", "h", "e", "n", "t", "i", "c", "a", "t", "e">>,
     <<"p", "r", "o", "x", "y", "-", "a", "u", "t", "h", "o", "r", "i", "z", "a", "t", "i", "o", "n">>,
     <<"t", "e">>,
     <<"t", "r", "a", "i", "l", "e", "r", "s">>,
     <<"t", "r", "a", "n", "s", "f", "e", "r", "-", "e", "n", "c", "o", "d", "i", "n", "g">>,
     <<"u", "p", "g", "r", "a", "d", "e">>,
     <<"c", "o", "n", "t", "e", "n", "t", "-", "l", "e", "n", "g", "t", "h">>}

\* the set excluded of _forward_headers
Excluded ==
    {<<"h", "o", "s", "t">>,
     <<"c", "o", "n", "t", "e", "n", "t", "-", "l", "e", "n", "g", "t", "h">>}

\* d[key] = value on a dict kept as the sequence of its items in insertion
\* order: a key already present keeps its place and takes the new value
DictSet(d, key, value) ==
    IF \E i \in 1..Len(d) : d[i][1] = key
    THEN [i \in 1..Len(d) |-> IF d[i][1] = key THEN <<key, value>> ELSE d[i]]
    ELSE Append(d, <<key, value>>)

RECURSIVE FilterInto(_, _, _)
\* for key, value in headers: if key.lower() not in removed: d[key] = value
FilterInto(d, headers, removed) ==
    IF headers = <<>> THEN d
    ELSE FilterInto(IF Lower(Head(headers)[1]) \notin removed
                    THEN DictSet(d, Head(headers)[1], Head(headers)[2])
                    ELSE d,
                    Tail(headers), removed)

\* _filter_headers(headers)
FilterHeaders(headers) == FilterInto(<<>>, headers, HopByHop)

\* _forward_headers(request_headers)
ForwardHeaders(request_headers) == FilterInto(<<>>, request_headers, Excluded)

\* response_headers = _filter_headers(upstream.headers.items())
ApplyFilterHeaders(r) ==
    /\ pc[r] = "headers"
    /\ rq' = [rq EXCEPT ![r].result = FilterHeaders(rq[r].headers)]
    /\ pc' = [pc EXCEPT ![r] = "filtered"]
    /\ UNCHANGED <<users, searches, clock, st, fw, resp>>

\* headers = _forward_headers(request.headers.items())
ApplyForwardHeaders(r) ==
    /\ pc[r] = "headers"
    /\ rq' = [rq EXCEPT ![r].result = ForwardHeaders(rq[r].headers)]
    /\ pc' = [pc EXCEPT ![r] = "forwarded"]
    /\ UNCHANGED <<users, searches, clock, st, fw, resp>>

(* --------------------------- specifications ---------------------------- *)

\* empty collections and the request tasks `tasks`, none yet arrived
InitTasks(tasks) ==
    /\ users = <<>>
    /\ searches = <<>>
    /\ clock = 1
    /\ pc = [r \in tasks |-> "idle"]
    /\ rq = [r \in tasks |-> NoRequest]
    /\ st = [r \in tasks |-> StLocals]
    /\ fw = [r \in tasks |-> FwLocals]
    /\ resp = [r \in tasks |-> NoResponse]

StoreStep(r) ==
    \/ StoreTimestamp(r)
    \/ StoreUpsert(r)
    \/ StoreInsertAnonymous(r)
    \/ StoreInsertSearch(r)
    \/ StoreFail(r)

\* NReq concurrent POST /log-search requests
NextStore ==
    \E r \in Reqs : ReceiveLogSearch(r) \/ StoreStep(r) \/ LogSearchRespond(r)

InitStore == InitTasks(Reqs)

SpecStore == InitStore /\ [][NextStore]_vars

ForwardStep(r) ==
    \/ ForwardBuffered(r)
    \/ StreamSend(r)
    \/ ClientExit(r)
    \/ StreamStart(r)
    \/ IterNext(r)
    \/ ClientDisconnect(r)
    \/ IterFinally(r)

\* the service handling one request, from its arrival to its response
Next ==
    \E r \in OneReq :
        \/ ReceiveLogSearch(r)
        \/ LogSearchRespond(r)
        \/ ReceiveChat(r)
        \/ ReceiveChatUnparseable(r)
        \/ ChatExtract(r)
        \/ StoreStep(r)
        \/ ChatStoreReturn(r)
        \/ ForwardStep(r)
        \/ ReceiveGeneric(r)
        \/ ForwardRaw(r)
        \/ UpstreamSilent(r)
        \/ Health(r)

Init == InitTasks(OneReq)

Spec == Init /\ [][Next]_vars

\* the event loop runs every task that can take a step: a request does not
\* stop while one of its steps is possible
SpecLive == Init /\ [][Next]_vars /\ WF_vars(Next)

(* the Event Extractor applied to every payload of a bounded set *)

MaxMessages == 2

\* contents of a message: strings, empty and blank ones among them; lists of
\* parts with and without text, blank and empty text, and a part that is no
\* object; null
ExtractContents ==
    {StrContent(<<>>), StrContent(<<" ">>), StrContent(<<"q">>), StrContent(<<"r">>),
     [t |-> "list", v |-> <<>>],
     [t |-> "list", v |-> <<[t |-> "dict", text |-> Some(<<>>)]>>],
     [t |-> "list", v |-> <<[t |-> "dict", text |-> Some(<<" ">>)],
                            [t |-> "dict", text |-> Some(<<" ">>)]>>],
     [t |-> "list", v |-> <<[t |-> "dict", text |-> Some(<<" ", "q">>)],
                            [t |-> "dict", text |-> None],
                            [t |-> "dict", text |-> Some(<<"r", " ">>)]>>],
     [t |-> "list", v |-> <<[t |-> "str"]>>],
     [t |-> "null"]}

\* entries of messages: user messages, messages of another role or of none,
\* and an entry that is no object
ExtractMessages ==
    {Message(UserRole, c) : c \in ExtractContents}
    \cup {Message(AssistantRole, StrContent(<<"q">>)),
          Message(None, StrContent(<<"q">>)),
          [t |-> "str"]}

\* the field messages: a list, absent, a string, a number
ExtractMessagesFields ==
    {[t |-> "list", v |-> ms] :
        ms \in UNION {[1..n -> ExtractMessages] : n \in 0..MaxMessages}}
    \cup {[t |-> "absent"], [t |-> "str"], [t |-> "other"]}

ExtractMetadataFields ==
    {NoMetadataField, [t |-> "other"],
     MetadataField(None, None),
     MetadataField(Some(Email1), Some(Name1)),
     MetadataField(NonString, None),
     MetadataField(None, NonString)}

\* parsed bodies: objects, and values that are no object
ExtractPayloads ==
    {[Payload(<<>>, user, metadata, FALSE) EXCEPT !.messages = messages] :
        messages \in ExtractMessagesFields,
        user \in {None, Some(UserId1), NonString},
        metadata \in ExtractMetadataFields}
    \cup {[t |-> "list"], [t |-> "null"]}

InitExtract ==
    /\ users = <<>>
    /\ searches = <<>>
    /\ clock = 1
    /\ pc = [r \in OneReq |-> "chat"]
    /\ \E payload \in ExtractPayloads :
         rq = [r \in OneReq |-> [route |-> "chat", parsed |-> TRUE,
                                 payload |-> payload,
                                 accept_event_stream |-> FALSE,
                                 event |-> NoEvent]]
    /\ st = [r \in OneReq |-> StLocals]
    /\ fw = [r \in OneReq |-> FwLocals]
    /\ resp = [r \in OneReq |-> NoResponse]

NextExtract == \E r \in OneReq : ChatExtract(r)

SpecExtract == InitExtract /\ [][NextExtract]_vars

(* the header functions applied to every header list of a bounded set *)

MaxHeaders == 3

HeaderNames ==
    {<<"t", "e">>, <<"T", "e">>,
     <<"c", "o", "n", "n", "e", "c", "t", "i", "o", "n">>,
     <<"h", "o", "s", "t">>,
     <<"c", "o", "n", "t", "e", "n", "t", "-", "l", "e", "n", "g", "t", "h">>,
     <<"s", "e", "t", "-", "c", "o", "o", "k", "i", "e">>,
     <<"x">>}

HeaderValues == {"1", "2"}

HeaderLists ==
    UNION {[1..n -> HeaderNames \X HeaderValues] : n \in 0..MaxHeaders}

InitHeaders ==
    /\ users = <<>>
    /\ searches = <<>>
    /\ clock = 1
    /\ pc = [r \in OneReq |-> "headers"]
    /\ \E headers \in HeaderLists :
         rq = [r \in OneReq |-> [route |-> "headers", headers |-> headers,
                                 result |-> <<>>]]
    /\ st = [r \in OneReq |-> StLocals]
    /\ fw = [r \in OneReq |-> FwLocals]
    /\ resp = [r \in OneReq |-> NoResponse]

NextHeaders == \E r \in OneReq : ApplyFilterHeaders(r) \/ ApplyForwardHeaders(r)

SpecHeaders == InitHeaders /\ [][NextHeaders]_vars

(* ------------------------------- properties ---------------------------- *)

StorePcs == {"st_ts", "st_user", "st_search", "st_ret"}

\* C1: on POST /v1/chat/completions a failure of the store is swallowed: the
\* request is forwarded all the same and the response the client gets is
\* never an error caused by the store.
C1_StoreFailureSwallowed ==
    \A r \in OneReq :
        (/\ rq[r].route = "chat"
         /\ st[r].out \in {"http500", "exc"}
         /\ pc[r] = "done")
        => (fw[r].mode # "none" /\ resp[r].cause # "store")

\* C2: on POST /v1/chat/completions the forward does not wait for the event
\* capture: while the store operations of a request are still under way, the
\* upstream request of that request can begin.
C2_ForwardNotBlockedByStore ==
    \A r \in OneReq :
        (rq[r].route = "chat" /\ pc[r] \in StorePcs)
        => ENABLED (ForwardBuffered(r) \/ StreamSend(r))

\* C3: a streamed relay whose client reads to the end delivers exactly the n
\* chunks the upstream emits, in their order.
C3_StreamDeliversAllChunks ==
    \A r \in OneReq :
        (/\ pc[r] = "done"
         /\ fw[r].mode = "stream"
         /\ fw[r].conn # "none"
         /\ fw[r].end # "disconnect")
        => resp[r].body = Chunks(fw[r].n)

\* C4: in streaming mode, once the client-facing stream has ended (upstream
\* finished, client disconnected, or an error while relaying) the upstream
\* connection is closed: no request ends with it still open.
C4_UpstreamClosedWhenStreamEnds ==
    \A r \in OneReq :
        (pc[r] = "done" /\ fw[r].mode = "stream" /\ fw[r].conn # "none")
        => fw[r].conn = "closed"

\* a client that disconnected in the middle of a stream, after a chunk
C4_Witness ==
    \E r \in OneReq :
        /\ pc[r] = "done"
        /\ fw[r].end = "disconnect"
        /\ Len(resp[r].body) >= 1
        /\ Len(resp[r].body) < fw[r].n
        /\ fw[r].conn = "closed"

\* the request has resolved its identity
Resolved(r) == st[r].uid # 0

\* both events carry an email, the same after normalization
SameEmail(r1, r2) ==
    /\ Truthy(rq[r1].event.email)
    /\ Truthy(rq[r2].event.email)
    /\ NormalizeEmail(rq[r1].event.email.s) = NormalizeEmail(rq[r2].event.email.s)

WithEmail(e) == { i \in 1..Len(users) : users[i].email = Some(e) }

\* C5: two events of the same normalized email, stored concurrently, leave
\* exactly one identity record of that email, in every interleaving.
C5_OneIdentityForConcurrentEmail ==
    \A r1, r2 \in Reqs :
        (r1 # r2 /\ Resolved(r1) /\ Resolved(r2) /\ SameEmail(r1, r2))
        => Cardinality(WithEmail(NormalizeEmail(rq[r1].event.email.s))) = 1

\* two requests that spell the email differently, both past their upsert and
\* neither yet returned
C5_Witness ==
    \E r1, r2 \in Reqs :
        /\ r1 # r2
        /\ pc[r1] = "st_search"
        /\ pc[r2] = "st_search"
        /\ SameEmail(r1, r2)
        /\ rq[r1].event.email # rq[r2].event.email
        /\ st[r1].uid = st[r2].uid

\* C6: the identities collection holds at most one record per normalized
\* email and at most one record per external_user_id.
C6_UniqueEmailAndExternalId ==
    \A i, j \in 1..Len(users) :
        i # j =>
            /\ ~(users[i].email.has /\ users[i].email = users[j].email)
            /\ ~(/\ users[i].external_user_id.has
                 /\ users[i].external_user_id = users[j].external_user_id)

Min(a, b) == IF a <= b THEN a ELSE b

Max(a, b) == IF a <= b THEN b ELSE a

\* C7: after two concurrent events of the same normalized email have been
\* stored, the identity's created_at is the timestamp of the first event and
\* its updated_at the timestamp of the later one.
C7_CreatedFirstUpdatedLater ==
    \A r1, r2 \in Reqs :
        (/\ r1 # r2
         /\ Resolved(r1)
         /\ Resolved(r2)
         /\ SameEmail(r1, r2)
         /\ \A r \in Reqs \ {r1, r2} : st[r].uid # st[r1].uid)
        => /\ users[st[r1].uid].created_at = Min(st[r1].ts, st[r2].ts)
           /\ users[st[r1].uid].updated_at = Max(st[r1].ts, st[r2].ts)

\* the event of request r has neither an email nor a user id
Unidentified(r) ==
    ~Truthy(rq[r].event.email) /\ ~Truthy(rq[r].event.user_id)

\* C8: storing an event with neither email nor user_id appends a new identity
\* record, named from the event's name or "Anonymous", and leaves every
\* existing identity record as it was.
C8_AnonymousCreatesDistinct ==
    [][\A r \in Reqs :
         (pc[r] = "st_user" /\ pc'[r] = "st_search" /\ Unidentified(r))
         => /\ Len(users') = Len(users) + 1
            /\ SubSeq(users', 1, Len(users)) = users
            /\ st'[r].uid = Len(users')
            /\ users'[Len(users')].name =
                 (IF Truthy(rq[r].event.name) THEN rq[r].event.name
                  ELSE Some(Anonymous))
            /\ ~users'[Len(users')].email.has
            /\ ~users'[Len(users')].external_user_id.has]_vars

\* two unidentified events of the same name, resolved to two identities
C8_Witness ==
    \E r1, r2 \in Reqs :
        /\ r1 # r2
        /\ Resolved(r1)
        /\ Resolved(r2)
        /\ Unidentified(r1)
        /\ Unidentified(r2)
        /\ rq[r1].event.name = rq[r2].event.name
        /\ st[r1].uid # st[r2].uid
        /\ users[st[r1].uid].name = users[st[r2].uid].name

Answered200(r) == pc[r] = "done" /\ resp[r].status = 200

\* C9: two successful POST /log-search events whose emails are equal after
\* trimming and lowercasing leave two search records that reference the same
\* single identity record, whose email is the normalized form.
C9_SameEmailTwoRecordsOneIdentity ==
    \A r1, r2 \in Reqs :
        (r1 # r2 /\ Answered200(r1) /\ Answered200(r2) /\ SameEmail(r1, r2))
        => LET email == NormalizeEmail(rq[r1].event.email.s)
               uid == resp[r1].user_id
           IN /\ resp[r2].user_id = uid
              /\ resp[r1].search_id # resp[r2].search_id
              /\ searches[resp[r1].search_id].user_id = uid
              /\ searches[resp[r2].search_id].user_id = uid
              /\ WithEmail(email) = {uid}
              /\ (\A r \in Reqs \ {r1, r2} : pc[r] = "idle")
                 => (Len(searches) = 2 /\ Len(users) = 1)

\* "A" and " a", both answered 200
C9_Witness ==
    \E r1, r2 \in Reqs :
        /\ r1 # r2
        /\ Answered200(r1)
        /\ Answered200(r2)
        /\ SameEmail(r1, r2)
        /\ rq[r1].event.email # rq[r2].event.email
        /\ Len(searches) = 2

\* C10: search records are append-only: a step leaves every existing search
\* record as it was, and adds one record exactly when a store_search_event
\* call succeeds.
C10_SearchesAppendOnly ==
    [][/\ Len(searches') >= Len(searches)
       /\ SubSeq(searches', 1, Len(searches)) = searches
       /\ Len(searches') = Len(searches)
            + Cardinality({ r \in Reqs : st[r].out # "ok" /\ st'[r].out = "ok" })]_vars

\* two successful calls for the same identity, two records
C10_Witness ==
    \E r1, r2 \in Reqs :
        /\ r1 # r2
        /\ Answered200(r1)
        /\ Answered200(r2)
        /\ resp[r1].user_id = resp[r2].user_id
        /\ Len(searches) = 2

\* the upstream call of request r raised httpx.RequestError
UpstreamFailed(r) == fw[r].end = "unavailable"

\* C11: a buffered forward whose upstream connection fails is answered 502
\* with the fixed message and no body of the upstream, on
\* /v1/chat/completions and on /v1/{path}.
C11_BufferedFailureIs502 ==
    \A r \in OneReq :
        (pc[r] = "done" /\ fw[r].mode = "buffered" /\ UpstreamFailed(r))
        => /\ rq[r].route \in {"chat", "generic"}
           /\ resp[r] = [status |-> BadGateway, cause |-> "upstream", body |-> <<>>]

\* a failed buffered forward of the generic route
C11_Witness ==
    \E r \in OneReq :
        /\ pc[r] = "done"
        /\ rq[r].route = "generic"
        /\ fw[r].mode = "buffered"
        /\ UpstreamFailed(r)
        /\ resp[r].status = BadGateway

\* C12: in streaming mode an upstream failure before the response has
\* started is answered 502 as in buffered mode; a failure after the response
\* has started leaves the started response as it is (its status is the
\* upstream's, never a 502 of the proxy) and the connection is closed.
C12_StreamFailure502OnlyBeforeStart ==
    \A r \in OneReq :
        /\ (pc[r] = "done" /\ fw[r].mode = "stream" /\ UpstreamFailed(r))
           => resp[r] = [status |-> BadGateway, cause |-> "upstream", body |-> <<>>]
        /\ (pc[r] = "done" /\ fw[r].mode = "stream" /\ fw[r].end = "error")
           => /\ resp[r].cause = "relay"
              /\ resp[r].status = fw[r].status
              /\ resp[r].status # BadGateway
              /\ fw[r].conn = "closed"

\* a stream that failed after a chunk was relayed
C12_Witness ==
    \E r \in OneReq :
        /\ pc[r] = "done"
        /\ fw[r].mode = "stream"
        /\ fw[r].end = "error"
        /\ Len(resp[r].body) >= 1
        /\ resp[r].status = 200

\* C13: no request to /v1/chat/completions or /v1/{path} ends in a 500
\* produced by the proxy: 500 is the end of POST /log-search on a store
\* failure only.
C13_No500OnProxiedRoutes ==
    \A r \in OneReq :
        (pc[r] = "done" /\ rq[r].route \in {"chat", "generic"})
        => resp[r].cause \notin {"store", "unhandled"}

\* C14: a POST /v1/chat/completions whose body is not parseable JSON is
\* answered with a client error (4xx).
C14_UnparseableIsClientError ==
    \A r \in OneReq :
        (pc[r] = "done" /\ rq[r].route = "chat" /\ ~rq[r].parsed)
        => resp[r].status \in 400..499

\* the extractor has been applied to the parsed payload of request r
Extracted(r) ==
    /\ rq[r].route = "chat"
    /\ rq[r].parsed
    /\ pc[r] \notin {"idle", "chat"}

\* the extractor returned an event for request r
EventReturned(r) ==
    Extracted(r) /\ ~IsRaised(rq[r].event) /\ rq[r].event # NoEvent

\* C15: the Event Extractor never raises: for every parsed payload it
\* returns an event or no event.
C15_ExtractorTotal ==
    \A r \in OneReq : Extracted(r) => ~IsRaised(rq[r].event)

\* the greatest element of a non-empty set of numbers
SetMax(S) == CHOOSE x \in S : \A y \in S : y <= x

\* message m is an object of role "user"
RoleUser(m) == m.t = "dict" /\ m.role = UserRole

\* message m is a user message with non-empty text
HasText(m) == RoleUser(m) /\ Truthy(ExtractUserText(m.content))

\* C16: for a payload with at least one user message with non-empty text
\* the extractor, when it returns, returns an event whose query is the text
\* of the last such message, also when user messages with empty text follow
\* it.
C16_QueryIsLastNonEmptyUserText ==
    \A r \in OneReq :
        LET ms == MessagesOf(rq[r].payload)
            withText == {i \in 1..Len(ms) : HasText(ms[i])}
        IN (/\ Extracted(r)
            /\ ~IsRaised(rq[r].event)
            /\ rq[r].payload.t = "dict"
            /\ withText # {})
           => /\ rq[r].event # NoEvent
              /\ rq[r].event.query = ExtractUserText(ms[SetMax(withText)].content).s

\* C17: for an object payload with no user message (messages absent, empty,
\* no sequence, or of other roles only), or whose user messages all have
\* empty text, the extractor returns no event.
C17_NoUserTextNoEvent ==
    \A r \in OneReq :
        (/\ Extracted(r)
         /\ rq[r].payload.t = "dict"
         /\ \/ rq[r].payload.messages.t # "list"
            \/ \A i \in 1..Len(rq[r].payload.messages.v) :
                  LET m == rq[r].payload.messages.v[i]
                  IN RoleUser(m) => ~Truthy(ExtractUserText(m.content)))
        => rq[r].event = NoEvent

\* no event for a message of another role with text that follows a user
\* message with empty text
C17_Witness ==
    \E r \in OneReq :
        /\ Extracted(r)
        /\ rq[r].payload.t = "dict"
        /\ rq[r].payload.messages =
              [t |-> "list",
               v |-> <<Message(UserRole, StrContent(<<>>)),
                       Message(AssistantRole, StrContent(<<"q">>))>>]
        /\ rq[r].event = NoEvent
        /\ pc[r] = "fwd"

\* C18: every event the extractor returns has a query that is non-empty
\* after trimming.
C18_QueryNonBlank ==
    \A r \in OneReq : EventReturned(r) => Strip(rq[r].event.query) # <<>>

\* C19: the result of _filter_headers is the input pairs whose name is not
\* hop-by-hop, each unaltered and in input order, pairs that share a name
\* included.
C19_FilterKeepsEveryOtherPair ==
    \A r \in OneReq :
        pc[r] = "filtered"
        => rq[r].result =
              SelectSeq(rq[r].headers, LAMBDA h : Lower(h[1]) \notin HopByHop)

\* C20: the headers sent to the upstream hold no hop-by-hop name and no host.
C20_NoHopByHopSentUpstream ==
    \A r \in OneReq :
        pc[r] = "forwarded"
        => \A i \in 1..Len(rq[r].result) :
              Lower(rq[r].result[i][1]) \notin (HopByHop \cup {<<"h", "o", "s", "t">>})

\* the forward of request r has begun
Forwarding(r) == fw[r].mode # "none"

\* C21: a forwarded request is relayed in streaming mode exactly when its
\* body declares stream: true or its Accept header indicates an event-stream,
\* on /v1/chat/completions and on /v1/{path}.
C21_StreamModeIffRequested ==
    \A r \in OneReq :
        /\ (rq[r].route = "chat" /\ Forwarding(r))
           => (fw[r].mode = "stream"
               <=> (rq[r].payload.stream \/ rq[r].accept_event_stream))
        /\ (rq[r].route = "generic" /\ Forwarding(r))
           => (fw[r].mode = "stream" <=> rq[r].accept_event_stream)

\* C22: every forward eventually reaches a terminal state, also when the
\* upstream accepts the connection and then stays silent.
C22_ForwardEventuallyEnds ==
    \A r \in OneReq : Forwarding(r) ~> (pc[r] = "done")

\* C23: a request to /v1/{path} captures no event (the collections stay as
\* they are) and issues exactly one upstream request, with the inbound
\* method, query parameters and body.
C23_GenericNoCaptureOneRequest ==
    \A r \in OneReq :
        rq[r].route = "generic"
        => /\ users = <<>>
           /\ searches = <<>>
           /\ st[r] = StLocals
           /\ pc[r] = "raw" => fw[r].sent = <<>>
           /\ pc[r] # "raw"
              => fw[r].sent = <<[method |-> rq[r].method,
                                 params |-> rq[r].params,
                                 body |-> rq[r].body]>>

\* a relayed DELETE with query parameters and a body
C23_Witness ==
    \E r \in OneReq :
        /\ rq[r].route = "generic"
        /\ pc[r] = "done"
        /\ rq[r].method = "DELETE"
        /\ rq[r].params # <<>>
        /\ rq[r].body # <<>>
        /\ resp[r].cause = "relay"
        /\ Len(fw[r].sent) = 1

\* C24: whenever the upstream returns a response, the client that reads to
\* the end receives the upstream's status and body, in buffered and in
\* streaming mode.
C24_StatusAndBodyMirrored ==
    \A r \in OneReq :
        (/\ pc[r] = "done"
         /\ rq[r].route \in {"chat", "generic"}
         /\ Forwarding(r)
         /\ ~UpstreamFailed(r)
         /\ fw[r].end # "disconnect")
        => /\ resp[r].status = fw[r].status
           /\ resp[r].body = Chunks(fw[r].n)

C26_UpsertSetsOnlyNonEmpty ==
    [][/\ \A i \in 1..Len(users) : users'[i].created_at = users[i].created_at
       /\ \A r \in Reqs :
             (pc[r] = "st_user" /\ pc'[r] = "st_search"
              /\ st'[r].uid \in 1..Len(users))
             => LET e == rq[r].event
                    old == users[st'[r].uid]
                    new == users'[st'[r].uid]
                IN /\ new.updated_at = st[r].ts
                   /\ new.name = (IF e.name.has /\ e.name.s # <<>>
                                  THEN e.name ELSE old.name)
                   /\ new.email = (IF e.email.has /\ e.email.s # <<>>
                                   THEN Some(Lower(Strip(e.email.s)))
                                   ELSE old.email)
                   /\ new.external_user_id =
                         (IF e.user_id.has /\ e.user_id.s # <<>>
                          THEN e.user_id ELSE old.external_user_id)]_vars

\* an event without a name has just updated an identity that has a name
C26_Witness ==
    \E r \in Reqs :
        /\ pc[r] = "st_search"
        /\ ~rq[r].event.name.has
        /\ st[r].uid \in 1..Len(users)
        /\ users[st[r].uid].name = Some(Name1)
        /\ users[st[r].uid].updated_at = st[r].ts
        /\ users[st[r].uid].created_at < users[st[r].uid].updated_at

\* C27: an event with an email and a user_id is resolved by the normalized
\* email alone: to the identity of that email, created if there is none,
\* whatever identity holds the user_id; the resolved identity's
\* external_user_id becomes the event's user_id.
C27_EmailBeforeUserId ==
    [][\A r \in Reqs :
          (/\ pc[r] = "st_user" /\ pc'[r] = "st_search"
           /\ rq[r].event.email.has /\ rq[r].event.email.s # <<>>
           /\ rq[r].event.user_id.has /\ rq[r].event.user_id.s # <<>>)
          => LET e == rq[r].event
                 norm == Some(Lower(Strip(e.email.s)))
                 i == st'[r].uid
             IN /\ i \in 1..Len(users')
                /\ users'[i].email = norm
                /\ users'[i].external_user_id = e.user_id
                /\ IF \E j \in 1..Len(users) : users[j].email = norm
                   THEN i \in 1..Len(users) /\ users[i].email = norm
                        /\ Len(users') = Len(users)
                   ELSE i = Len(users) + 1 /\ Len(users') = Len(users) + 1]_vars

\* two identities hold the same external_user_id: one without an email, and
\* one created for an event with that user_id and an email
C27_Witness ==
    \E i, j \in 1..Len(users) :
        /\ i # j
        /\ users[i].external_user_id = Some(UserId1)
        /\ users[j].external_user_id = Some(UserId1)
        /\ ~users[i].email.has
        /\ users[j].email = Some(<<"a">>)

\* C28: the user_id of every search record is the id of an identity in the
\* users collection.
C28_SearchRefersToIdentity ==
    \A i \in 1..Len(searches) : searches[i].user_id \in 1..Len(users)

\* two search records of two identities
C28_Witness ==
    /\ Len(searches) = 2
    /\ searches[1].user_id # searches[2].user_id
    /\ searches[1].user_id \in 1..Len(users)
    /\ searches[2].user_id \in 1..Len(users)

\* C29: when the write of the identity succeeded and the insert of the
\* search record fails, the call reports a store error, no search record is
\* added, and the identity stays as written.
C29_IdentityKeptWhenRecordFails ==
    [][\A r \in Reqs :
          /\ (pc[r] = "st_search" /\ pc'[r] = "st_ret" /\ st'[r].out # "ok")
             => /\ users' = users
                /\ searches' = searches
                /\ st[r].uid \in 1..Len(users)
                /\ st'[r].out \in {"http500", "exc"}
          /\ (pc[r] = "st_ret" /\ pc'[r] = "done" /\ st[r].out # "ok")
             => /\ resp'[r].status = StoreErrorStatus
                /\ users' = users
                /\ searches' = searches]_vars

\* a failed call whose identity is in the collection, with no record at all
C29_Witness ==
    \E r \in Reqs :
        /\ pc[r] = "done"
        /\ st[r].out = "http500"
        /\ st[r].uid \in 1..Len(users)
        /\ resp[r].status = StoreErrorStatus
        /\ searches = <<>>

\* C30: on POST /v1/chat/completions with an event and a working store the
\* search record is in the collection when the upstream request is issued,
\* and exactly one record exists for the request whatever the forward does,
\* a 502 included.
C30_RecordBeforeForward ==
    \A r \in OneReq :
        (/\ rq[r].route = "chat"
         /\ EventReturned(r)
         /\ st[r].out \notin {"http500", "exc"}
         /\ Forwarding(r))
        => /\ Len(searches) = 1
           /\ searches[1].query = rq[r].event.query
           /\ st[r].sid = 1
           /\ Len(fw[r].sent) = 1

\* the capture of a request whose forward ended with a 502
C30_Witness ==
    \E r \in OneReq :
        /\ rq[r].route = "chat"
        /\ pc[r] = "done"
        /\ resp[r].status = BadGateway
        /\ UpstreamFailed(r)
        /\ Len(searches) = 1
        /\ st[r].out = "ok"

====
